---- MODULE Spec2Model ----
(***************************************************************************)
(* Model of comfy_api_simplified: the job-completion protocol of           *)
(* ComfyApiWrapper (queue_prompt, queue_prompt_and_wait, wait_for_prompt,  *)
(* queue_and_wait_images, get_history).                                    *)
(*                                                                         *)
(* One caller task is modelled.  The remote engine is the environment: it  *)
(* chooses the submission response, whether a connection attempt works,    *)
(* which message arrives next, when a connection drops and what the        *)
(* history document holds.  The caller's event loop may cancel the task at *)
(* any await.                                                              *)
(***************************************************************************)
EXTENDS Integers, Sequences, FiniteSets, TLC

\* ---------------------------------------------------------------- bounds
\* Largest queue_remaining value a status message carries in the model.
MaxQueueRemaining == 2

\* ------------------------------------------------------ program constants
\* max_retries = 30
MaxRetries == 30
\* retry_delay = 5
RetryDelay == 5

\* ------------------------------------------------------------ value sets
None == "None"
Absent == "absent"

\* str(uuid.uuid4())
Uuid == "uuid4"

\* client_id argument of the public entry points
ClientIds == {None, "c1"}

\* node ids the engine reports outputs for / the caller may ask for
NodeIds == {"5", "9"}

\* prompt id the engine assigns to the n-th accepted submission
EnginePromptId(n) == IF n = 1 THEN "P" ELSE "P_resubmitted"

\* prompt id of some other client's job
OtherPromptId == "Q"

\* what POST /prompt can answer: 200 with a prompt_id, 200 without one
\* (validation error document), or a non-200 status
Responses == {"ok", "no_prompt_id", "http_error"}

\* ------------------------------------------------------------- messages
\* A websocket frame, reduced to the fields wait_for_prompt reads.
\*   kind   : "binary" (bytes), "garbage" (str, not JSON), "json"
\*   type   : message["type"], or Absent
\*   data   : whether message["data"] exists
\*   node   : data["node"]: Absent (no key), None (null) or a node id
\*   pid    : data["prompt_id"], or Absent
\*   qr     : data["status"]["exec_info"]["queue_remaining"], -1 when missing
\*   detail : whether node_id/node_type/exception_type/exception_message exist
Msg(kind, type, data, node, pid, qr, detail) ==
    [kind |-> kind, type |-> type, data |-> data, node |-> node,
     pid |-> pid, qr |-> qr, detail |-> detail]

Plain(type, data) == Msg("json", type, data, Absent, Absent, -1, FALSE)

Binary == Msg("binary", Absent, FALSE, Absent, Absent, -1, FALSE)
Garbage == Msg("garbage", Absent, FALSE, Absent, Absent, -1, FALSE)
NoType == Plain(Absent, TRUE)
Monitor == Plain("crystools.monitor", TRUE)
Status(q) == Msg("json", "status", TRUE, Absent, Absent, q, FALSE)
Executing(node, pid) == Msg("json", "executing", TRUE, node, pid, -1, FALSE)
Executed(node, pid) == Msg("json", "executed", TRUE, node, pid, -1, FALSE)
ExecutionError(pid, detail) ==
    Msg("json", "execution_error", TRUE, Absent, pid, -1, detail)

PromptIdFields == {Absent, EnginePromptId(1), OtherPromptId}

Messages ==
    {Binary, Garbage, NoType, Monitor}
    \cup {Plain("execution_cached", d) : d \in BOOLEAN}
    \cup {Plain("progress", TRUE)}
    \cup {Plain(t, FALSE) : t \in {"execution_error", "status", "executing", "executed"}}
    \cup {ExecutionError(p, TRUE) : p \in PromptIdFields}
    \cup {ExecutionError(EnginePromptId(1), FALSE)}
    \cup {Status(q) : q \in -1 .. MaxQueueRemaining}
    \cup {Executing(None, p) : p \in PromptIdFields}
    \cup {Executing(n, Absent) : n \in {Absent, "5"}}
    \cup {Executed(None, p) : p \in PromptIdFields}
    \cup {Executed(n, Absent) : n \in {Absent, "5"}}

NoMessage == Plain("<none>", FALSE)

\* --------------------------------------------- handling of one message
\* Result of the body of the inner while loop for one received frame:
\*   ctl    : "continue" (read the next frame), "return" (return prompt_id),
\*            "raise" (an exception leaves the loop)
\*   err    : the exception type when ctl = "raise"
\*   logged : the execution error of the awaited job was logged
Continue == [ctl |-> "continue", err |-> "", logged |-> FALSE]
Return == [ctl |-> "return", err |-> "", logged |-> FALSE]
Raise(e) == [ctl |-> "raise", err |-> e, logged |-> FALSE]
Logged == [ctl |-> "continue", err |-> "", logged |-> TRUE]

\* if mtype == "execution_cached": logging.debug(f"... {message['data']}")
HandleExecutionCached(m) ==
    IF m.data THEN Continue ELSE Raise("KeyError")

\* if mtype == "execution_error": ... only logs, then falls through
HandleExecutionError(m, prompt_id) ==
    IF ~m.data \/ m.pid = Absent THEN Raise("KeyError")
    ELSE IF m.pid = prompt_id
         THEN IF m.detail THEN Logged ELSE Raise("KeyError")
         ELSE Continue

\* HandleStatus returning on every status message, whatever the queue holds
HandleStatusAnyQueue(m) ==
    IF ~m.data \/ m.qr < 0 THEN Raise("KeyError")
    ELSE Return

\* if mtype == "status": return prompt_id when queue_remaining == 0
HandleStatus(m) ==
    IF ~m.data \/ m.qr < 0 THEN Raise("KeyError")
    ELSE IF m.qr = 0 THEN Return
    ELSE Continue

\* HandleExecuting without the comparison against the awaited prompt id
HandleExecutingAnyPrompt(m, prompt_id) ==
    IF ~m.data \/ m.node = Absent THEN Raise("KeyError")
    ELSE IF m.node = None THEN Return
    ELSE Continue

\* if mtype == "executing": return prompt_id when node is None and the
\* message names the awaited prompt
HandleExecuting(m, prompt_id) ==
    IF ~m.data \/ m.node = Absent THEN Raise("KeyError")
    ELSE IF m.node = None
         THEN IF m.pid # Absent /\ m.pid = prompt_id THEN Return ELSE Continue
         ELSE Continue

\* HandleExecuted returning on every executed message that names a node or
\* None, whatever node and prompt it names
HandleExecutedAnyNode(m, prompt_id) ==
    IF ~m.data \/ m.node = Absent THEN Raise("KeyError")
    ELSE Return

\* if mtype == "executed": same shape as "executing"
HandleExecuted(m, prompt_id) ==
    IF ~m.data \/ m.node = Absent THEN Raise("KeyError")
    ELSE IF m.node = None
         THEN IF m.pid # Absent /\ m.pid = prompt_id THEN Return ELSE Continue
         ELSE Continue

\* HandleMessage that discards a frame it cannot decode and a message
\* without a type, and keeps reading
HandleMessageLenient(m, prompt_id) ==
    IF m.kind = "binary" THEN Continue
    ELSE IF m.kind = "garbage" THEN Continue
    ELSE IF m.type = Absent THEN Continue
    ELSE IF m.type = "crystools.monitor" THEN Continue
    ELSE IF m.type = "execution_cached" THEN HandleExecutionCached(m)
    ELSE IF m.type = "execution_error" THEN HandleExecutionError(m, prompt_id)
    ELSE IF m.type = "status" THEN HandleStatus(m)
    ELSE IF m.type = "executing" THEN HandleExecuting(m, prompt_id)
    ELSE IF m.type = "executed" THEN HandleExecuted(m, prompt_id)
    ELSE Continue

\* body of the inner `while True` for one frame
HandleMessage(m, prompt_id) ==
    IF m.kind = "binary" THEN Continue
    ELSE IF m.kind = "garbage" THEN Raise("JSONDecodeError")
    ELSE IF m.type = Absent THEN Raise("KeyError")
    ELSE IF m.type = "crystools.monitor" THEN Continue
    ELSE IF m.type = "execution_cached" THEN HandleExecutionCached(m)
    ELSE IF m.type = "execution_error" THEN HandleExecutionError(m, prompt_id)
    ELSE IF m.type = "status" THEN HandleStatus(m)
    ELSE IF m.type = "executing" THEN HandleExecuting(m, prompt_id)
    ELSE IF m.type = "executed" THEN HandleExecuted(m, prompt_id)
    ELSE Continue

\* ------------------------------------------------------------ the state
VARIABLES
    pc,              \* position of the caller's task: "idle", "waiting"
                     \* (inside wait_for_prompt), "get_history", "done"
    entry,           \* public method the caller invoked
    client_id,       \* client_id local of queue_prompt_and_wait
    output_node_ids, \* output_node_ids argument of queue_and_wait_images
    response,        \* what POST /prompt answered
    submissions,     \* number of POST /prompt requests sent
    prompt_id,       \* prompt_id argument of wait_for_prompt
    ws_url,          \* client id formatted into ws_url
    listener,        \* state of wait_for_prompt
    max_retries,     \* max_retries local of wait_for_prompt (remaining budget)
    connects,        \* number of websockets.connect attempts
    connClients,     \* client ids those attempts were addressed to
    failures,        \* number of exceptions caught by the inner except
    slept,           \* seconds spent in asyncio.sleep(retry_delay)
    connOpen,        \* the websocket of the current `async with` is open
    last,            \* last frame received
    scen,            \* how many leading frames of this wait match Scenario
    errorLogged,     \* the awaited job's execution error was logged
    outcome,         \* how the public method ended
    error,           \* exception that left the public method
    returned,        \* prompt id returned by queue_prompt_and_wait
    history,         \* outputs of the history document get_history fetched
    outputs,         \* prompt_result["outputs"] returned by queue_and_wait_images
    historyCalls     \* number of GET /history requests sent

\* the workflow graphs (ComfyWorkflowWrapper)
VARIABLES
    heap,            \* node objects: address -> node dict
    G,               \* the caller's workflow: node id -> address of its node
    P,               \* the wrapper prune(G, ...) returned
    P2,              \* the wrapper prune(P, ...) returned
    pstatus,         \* how prune(G, ...) ended: "none", "ok", "KeyError"
    p2status,        \* how prune(P, ...) ended
    pruning,         \* wrapper a running prune works on: "none", "G", "P"
    output_nodes,    \* output_nodes argument of the last prune(G, ...)
    todo,            \* output nodes the `for output_node` loop has yet to visit
    stack,           \* active dfs calls: node id and index of the next input
    visited_nodes,   \* visited_nodes of the running prune
    required_nodes,  \* required_nodes of the running prune
    calls,           \* number of dfs calls the running prune made
    entered,         \* per node id: times dfs got past the visited check
    added,           \* per node id: number of required_nodes.add calls
    shared,          \* ids under which G and P still hold the node prune kept
    edits,           \* number of mutating calls made on the wrappers
    ret,             \* value the last get_node_param returned
    gerr,            \* exception the last wrapper method raised, or "none"
    lastEdit         \* the last set/get/add/delete call: wrapper and method

graphVars == <<heap, G, P, P2, pstatus, p2status, pruning, output_nodes, todo,
               stack, visited_nodes, required_nodes, calls, entered, added,
               shared, edits, ret, gerr, lastEdit>>

apiVars == <<pc, entry, client_id, output_node_ids, response, submissions,
             prompt_id, ws_url, listener, max_retries, connects, connClients,
             failures, slept, connOpen, last, scen, errorLogged, outcome, error,
             returned, history, outputs, historyCalls>>

vars == <<apiVars, graphVars>>

resultVars == <<history, outputs, historyCalls>>

callVars == <<entry, client_id, output_node_ids, response, submissions,
              prompt_id, ws_url>>

\* the event sequence of the listener scenario
Scenario ==
    <<Monitor, Status(2), Executing("5", Absent), Executed("5", Absent), Status(0)>>

\* history documents: node id -> artifacts, for the nodes that produced output
Histories == UNION {[S -> {{"a.png"}}] : S \in SUBSET NodeIds}

EmptyOutputs == [n \in {} |-> {}]

\* ------------------------------------------------- workflow documents
\* A JSON value of a workflow document.  Scalars keep their text in v; a
\* list keeps its elements (scalars) in items.
\*   k : "num" (int/float), "bool", "str", "list", or "none"
Scalar(k, v) == [k |-> k, v |-> v]
Val(k, v, items) == [k |-> k, v |-> v, items |-> items]
Num(t) == Val("num", t, <<>>)
Bool(t) == Val("bool", t, <<>>)
Str(t) == Val("str", t, <<>>)
List(items) == Val("list", "", items)
NoValue == Val("none", "", <<>>)

\* a reference to another node's output: [producer id, output slot]
Ref(producer) == List(<<producer, Scalar("num", "0")>>)

\* str(x) of a scalar: its text, as a string
StrOf(x) == x.v

\* isinstance(input_value, list) and len(input_value) == 2
IsReference(val) == val.k = "list" /\ Len(val.items) = 2

\* a node dict: _meta.title and inputs, with the insertion order of inputs
Node(title, order, inputs) ==
    [title |-> title, order |-> order, inputs |-> inputs]

\* node ids of the documents, and an id no document holds
Ids == {"1", "2", "3"}
MissingId == "9"
AllIds == Ids \cup {MissingId}
IdSeq == <<"1", "2", "3", MissingId>>
AddrOf(id) == CHOOSE a \in 1 .. Len(IdSeq) : IdSeq[a] = id

EmptyGraph == [n \in {} |-> 0]
EmptyHeap == [a \in {} |-> 0]
ZeroCount == [n \in AllIds |-> 0]

\* the wrapper and the node objects json.loads builds from a document
HeapOf(doc) == [a \in {AddrOf(id) : id \in DOMAIN doc} |-> doc[IdSeq[a]]]
WrapperOf(doc) == [id \in DOMAIN doc |-> AddrOf(id)]

\* no workflow loaded, no prune running
GraphIdle ==
    /\ heap = EmptyHeap
    /\ G = EmptyGraph
    /\ P = EmptyGraph
    /\ P2 = EmptyGraph
    /\ pstatus = "none"
    /\ p2status = "none"
    /\ pruning = "none"
    /\ output_nodes = <<>>
    /\ todo = <<>>
    /\ stack = <<>>
    /\ visited_nodes = {}
    /\ required_nodes = {}
    /\ calls = 0
    /\ entered = ZeroCount
    /\ added = ZeroCount
    /\ shared = {}
    /\ edits = 0
    /\ ret = NoValue
    /\ gerr = "none"
    /\ lastEdit = "none"

\* the wrapper right after ComfyWorkflowWrapper(doc)
GraphLoaded(doc) ==
    /\ heap = HeapOf(doc)
    /\ G = WrapperOf(doc)
    /\ P = EmptyGraph
    /\ P2 = EmptyGraph
    /\ pstatus = "none"
    /\ p2status = "none"
    /\ pruning = "none"
    /\ output_nodes = <<>>
    /\ todo = <<>>
    /\ stack = <<>>
    /\ visited_nodes = {}
    /\ required_nodes = {}
    /\ calls = 0
    /\ entered = ZeroCount
    /\ added = ZeroCount
    /\ shared = {}
    /\ edits = 0
    /\ ret = NoValue
    /\ gerr = "none"
    /\ lastEdit = "none"

\* the API wrapper right after construction
ApiInit ==
    /\ pc = "idle"
    /\ entry = "none"
    /\ client_id = None
    /\ output_node_ids = {}
    /\ response = "none"
    /\ submissions = 0
    /\ prompt_id = None
    /\ ws_url = None
    /\ listener = "NotStarted"
    /\ max_retries = MaxRetries
    /\ connects = 0
    /\ connClients = {}
    /\ failures = 0
    /\ slept = 0
    /\ connOpen = FALSE
    /\ last = NoMessage
    /\ scen = 0
    /\ errorLogged = FALSE
    /\ outcome = "none"
    /\ error = "none"
    /\ returned = None
    /\ history = EmptyOutputs
    /\ outputs = EmptyOutputs
    /\ historyCalls = 0

Init ==
    /\ ApiInit
    /\ GraphIdle

\* --------------------------------------------------------- submission
\* self.ws_url.format(client_id)
WsUrl(cid) == cid

\* an exception (or SystemExit) leaves the public method
Fail(how, e) ==
    /\ pc' = "done"
    /\ outcome' = how
    /\ error' = e

\* queue_prompt_and_wait up to its await: default the client id, POST the
\* prompt once, read prompt_id from the response, enter wait_for_prompt
Submit(cid, resp) ==
    /\ client_id' = IF cid = None THEN Uuid ELSE cid
    /\ response' = resp
    /\ submissions' = submissions + 1
    /\ IF resp = "http_error"
       THEN /\ Fail("raised", "Exception")
            /\ UNCHANGED <<prompt_id, ws_url, listener>>
       ELSE IF resp = "no_prompt_id"
       THEN /\ Fail("exit", "SystemExit")
            /\ UNCHANGED <<prompt_id, ws_url, listener>>
       ELSE /\ prompt_id' = EnginePromptId(submissions')
            /\ ws_url' = WsUrl(client_id')
            /\ listener' = "Connecting"
            /\ pc' = "waiting"
            /\ UNCHANGED <<outcome, error>>
    /\ UNCHANGED <<max_retries, connects, connClients, failures, slept,
                   connOpen, last, scen, errorLogged, returned, resultVars>>
    /\ UNCHANGED graphVars

QueuePromptAndWait(cid, resp) ==
    /\ pc = "idle"
    /\ entry' = "queue_prompt_and_wait"
    /\ output_node_ids' = {}
    /\ Submit(cid, resp)

QueueAndWaitImages(outs, cid, resp) ==
    /\ pc = "idle"
    /\ entry' = "queue_and_wait_images"
    /\ output_node_ids' = outs
    /\ Submit(cid, resp)

\* ------------------------------------------------------ wait_for_prompt
waitVars == <<max_retries, connects, connClients, failures, slept, last,
              scen, errorLogged>>

\* `return prompt_id`: the async with closes the websocket; the caller of
\* queue_prompt_and_wait gets the prompt id, queue_and_wait_images goes on
\* to the history lookup
WaitReturns ==
    /\ listener' = "Completed"
    /\ connOpen' = FALSE
    /\ returned' = prompt_id
    /\ IF entry = "queue_and_wait_images"
       THEN /\ pc' = "get_history"
            /\ UNCHANGED <<outcome, error>>
       ELSE /\ pc' = "done"
            /\ outcome' = "returned"
            /\ UNCHANGED error

\* OnException giving up at the first exception, without any retry
OnExceptionNoRetry(e) ==
    /\ connOpen' = FALSE
    /\ failures' = failures + 1
    /\ listener' = "Failed"
    /\ Fail("raised", e)

\* OnException that never looks at the budget and always retries
OnExceptionUnbounded(e) ==
    /\ connOpen' = FALSE
    /\ failures' = failures + 1
    /\ listener' = "Backoff"
    /\ UNCHANGED <<pc, outcome, error>>

\* OnException that swallows the exception once the budget is used up and
\* lets the caller go on as if the wait had returned
OnExceptionSwallow(e) ==
    /\ connOpen' = FALSE
    /\ failures' = failures + 1
    /\ IF max_retries > 0
       THEN /\ listener' = "Backoff"
            /\ UNCHANGED <<pc, outcome, error>>
       ELSE /\ listener' = "Failed"
            /\ IF entry = "queue_and_wait_images"
               THEN /\ pc' = "get_history"
                    /\ UNCHANGED <<outcome, error>>
               ELSE /\ pc' = "done"
                    /\ outcome' = "returned"
                    /\ UNCHANGED error

\* `except Exception as e` of the inner try: retry while the budget lasts,
\* otherwise re-raise e through the outer except to the caller
OnException(e) ==
    /\ connOpen' = FALSE
    /\ failures' = failures + 1
    /\ IF max_retries > 0
       THEN /\ listener' = "Backoff"
            /\ UNCHANGED <<pc, outcome, error>>
       ELSE /\ listener' = "Failed"
            /\ Fail("raised", e)

\* Connect that restores the retry budget whenever the handshake succeeds
ConnectResetsBudget(ok) ==
    /\ pc = "waiting"
    /\ listener = "Connecting"
    /\ connects' = connects + 1
    /\ connClients' = connClients \cup {ws_url}
    /\ IF ok
       THEN /\ listener' = "Streaming"
            /\ connOpen' = TRUE
            /\ max_retries' = MaxRetries
            /\ UNCHANGED <<failures, pc, outcome, error>>
       ELSE /\ OnException("OSError")
            /\ UNCHANGED max_retries
    /\ UNCHANGED <<slept, last, scen, errorLogged, returned, resultVars>>
    /\ UNCHANGED callVars
    /\ UNCHANGED graphVars

\* websockets.connect(uri=ws_url): the handshake succeeds or raises
Connect(ok) ==
    /\ pc = "waiting"
    /\ listener = "Connecting"
    /\ connects' = connects + 1
    /\ connClients' = connClients \cup {ws_url}
    /\ IF ok
       THEN /\ listener' = "Streaming"
            /\ connOpen' = TRUE
            /\ UNCHANGED <<failures, pc, outcome, error>>
       ELSE OnException("OSError")
    /\ UNCHANGED <<max_retries, slept, last, scen, errorLogged, returned,
                   resultVars>>
    /\ UNCHANGED callVars
    /\ UNCHANGED graphVars

\* progress of the frames received so far along Scenario (-1: diverged)
ScenarioStep(n, m) ==
    IF n >= 0 /\ n < Len(Scenario) /\ m = Scenario[n + 1] THEN n + 1 ELSE -1

\* out = await websocket.recv() delivers a frame, and the loop body runs
Recv(m) ==
    /\ pc = "waiting"
    /\ listener = "Streaming"
    /\ last' = m
    /\ scen' = ScenarioStep(scen, m)
    /\ LET r == HandleMessage(m, prompt_id) IN
         /\ errorLogged' = (errorLogged \/ r.logged)
         /\ IF r.ctl = "return"
            THEN /\ WaitReturns
                 /\ UNCHANGED failures
            ELSE IF r.ctl = "raise"
            THEN /\ OnException(r.err)
                 /\ UNCHANGED returned
            ELSE UNCHANGED <<listener, connOpen, failures, pc, outcome, error,
                             returned>>
    /\ UNCHANGED <<max_retries, connects, connClients, slept, resultVars>>
    /\ UNCHANGED callVars
    /\ UNCHANGED graphVars

\* await websocket.recv() raises ConnectionClosedError: the transport dropped
ConnectionDrop ==
    /\ pc = "waiting"
    /\ listener = "Streaming"
    /\ OnException("ConnectionClosedError")
    /\ UNCHANGED <<max_retries, connects, connClients, slept, last, scen,
                   errorLogged, returned, resultVars>>
    /\ UNCHANGED callVars
    /\ UNCHANGED graphVars

\* RetrySleepDone that posts the prompt again before reconnecting
RetrySleepDoneResubmit ==
    /\ pc = "waiting"
    /\ listener = "Backoff"
    /\ slept' = slept + RetryDelay
    /\ max_retries' = max_retries - 1
    /\ listener' = "Connecting"
    /\ submissions' = submissions + 1
    /\ prompt_id' = EnginePromptId(submissions')
    /\ UNCHANGED <<connects, connClients, failures, connOpen, last, scen,
                   errorLogged, pc, outcome, error, returned, resultVars>>
    /\ UNCHANGED <<entry, client_id, output_node_ids, response, ws_url>>
    /\ UNCHANGED graphVars

\* await asyncio.sleep(retry_delay) ends; max_retries -= 1; next iteration
\* of the outer `while True`
RetrySleepDone ==
    /\ pc = "waiting"
    /\ listener = "Backoff"
    /\ slept' = slept + RetryDelay
    /\ max_retries' = max_retries - 1
    /\ listener' = "Connecting"
    /\ UNCHANGED <<connects, connClients, failures, connOpen, last, scen,
                   errorLogged, pc, outcome, error, returned, resultVars>>
    /\ UNCHANGED callVars
    /\ UNCHANGED graphVars

\* Cancel whose CancelledError is caught by `except Exception` like any
\* other exception
CancelCaught ==
    /\ pc = "waiting"
    /\ listener \in {"Connecting", "Streaming", "Backoff"}
    /\ OnException("CancelledError")
    /\ UNCHANGED <<max_retries, connects, connClients, slept, last, scen,
                   errorLogged, returned, resultVars>>
    /\ UNCHANGED callVars
    /\ UNCHANGED graphVars

\* The task is cancelled while suspended at an await (connect, recv or
\* sleep).  asyncio.CancelledError derives from BaseException, so neither
\* `except Exception` catches it; the async with closes the websocket.
Cancel ==
    /\ pc = "waiting"
    /\ listener \in {"Connecting", "Streaming", "Backoff"}
    /\ listener' = "Cancelled"
    /\ connOpen' = FALSE
    /\ Fail("cancelled", "CancelledError")
    /\ UNCHANGED <<waitVars, returned, resultVars>>
    /\ UNCHANGED callVars
    /\ UNCHANGED graphVars

\* ------------------------------------------------ queue_and_wait_images
Restrict(f, S) == [n \in (DOMAIN f) \cap S |-> f[n]]

\* FilterOutputs that deletes nothing
FilterOutputsKeepAll(outs, ids) == outs

\* if output_node_ids: delete every key of outputs not in output_node_ids
FilterOutputs(outs, ids) ==
    IF ids # {} THEN Restrict(outs, ids) ELSE outs

\* prompt_result = self.get_history(prompt_id)[prompt_id], then the filter.
\* ok = FALSE: the lookup raises (non-200 answer, or no entry for the prompt)
GetHistory(ok, h) ==
    /\ pc = "get_history"
    /\ historyCalls' = historyCalls + 1
    /\ IF ok
       THEN /\ history' = h
            /\ outputs' = FilterOutputs(h, output_node_ids)
            /\ pc' = "done"
            /\ outcome' = "returned"
            /\ UNCHANGED error
       ELSE /\ Fail("raised", "Exception")
            /\ UNCHANGED <<history, outputs>>
    /\ UNCHANGED <<waitVars, listener, connOpen, returned>>
    /\ UNCHANGED callVars
    /\ UNCHANGED graphVars

\* ---------------------------------------------------------- the system
Next ==
    \/ \E cid \in ClientIds, resp \in Responses : QueuePromptAndWait(cid, resp)
    \/ \E outs \in SUBSET NodeIds, cid \in ClientIds, resp \in Responses :
          QueueAndWaitImages(outs, cid, resp)
    \/ \E ok \in BOOLEAN : Connect(ok)
    \/ \E m \in Messages : Recv(m)
    \/ ConnectionDrop
    \/ RetrySleepDone
    \/ Cancel
    \/ \E ok \in BOOLEAN, h \in Histories : GetHistory(ok, h)

Spec == Init /\ [][Next]_vars

\* ------------------------------------------------------------ typing
TypeOK ==
    /\ pc \in {"idle", "waiting", "get_history", "done"}
    /\ listener \in {"NotStarted", "Connecting", "Streaming", "Backoff",
                     "Completed", "Failed", "Cancelled"}
    /\ max_retries \in 0 .. MaxRetries
    /\ outcome \in {"none", "returned", "raised", "exit", "cancelled"}
    /\ last \in Messages \cup {NoMessage}
    /\ scen \in -1 .. Len(Scenario)

\* =========================================== ComfyWorkflowWrapper.prune
\* ---------------------------------------------------------------- bounds
\* Longest output_nodes list passed to prune.
MaxOutputs == 2

\* ids the caller may name in output_nodes
OutputIds == AllIds
OutputLists == UNION {[1 .. n -> OutputIds] : n \in 0 .. MaxOutputs}

\* the wrapper the running prune reads (its `workflow` parameter)
Workflow == IF pruning = "P" THEN P ELSE G

\* workflow[node_id]
NodeAt(node_id) == heap[Workflow[node_id]]

\* the innermost active dfs call
Top == stack[Len(stack)]

Pop(stk) == SubSeq(stk, 1, Len(stk) - 1)

\* an exception leaves prune: no wrapper is returned
PruneRaises(e) ==
    /\ gerr' = e
    /\ pruning' = "none"
    /\ stack' = <<>>
    /\ todo' = <<>>
    /\ IF pruning = "G"
       THEN pstatus' = e /\ UNCHANGED p2status
       ELSE p2status' = e /\ UNCHANGED pstatus

\* dfs(node_id) without the visited check: every call enters the node
DfsCallRevisits(node_id, stk, rest) ==
    /\ calls' = calls + 1
    /\ visited_nodes' = visited_nodes \cup {node_id}
    /\ entered' = [entered EXCEPT ![node_id] = @ + 1]
    /\ IF node_id \in DOMAIN Workflow
       THEN /\ stack' = Append(stk, [node |-> node_id, idx |-> 1])
            /\ todo' = rest
            /\ UNCHANGED <<gerr, pruning, pstatus, p2status>>
       ELSE PruneRaises("KeyError")

\* dfs(node_id) that skips an id the workflow does not hold
DfsCallSkipsMissing(node_id, stk, rest) ==
    /\ calls' = calls + 1
    /\ todo' = rest
    /\ UNCHANGED <<gerr, pruning, pstatus, p2status>>
    /\ IF node_id \in visited_nodes \/ node_id \notin DOMAIN Workflow
       THEN /\ stack' = stk
            /\ UNCHANGED <<visited_nodes, entered>>
       ELSE /\ visited_nodes' = visited_nodes \cup {node_id}
            /\ entered' = [entered EXCEPT ![node_id] = @ + 1]
            /\ stack' = Append(stk, [node |-> node_id, idx |-> 1])

\* dfs(node_id), from the call to the start of its for loop: return at once
\* when visited, else mark visited and look the node up (KeyError when the
\* workflow has no such id).  stk is the caller's stack, rest the output
\* nodes still to visit.
DfsCall(node_id, stk, rest) ==
    /\ calls' = calls + 1
    /\ IF node_id \in visited_nodes
       THEN /\ stack' = stk
            /\ todo' = rest
            /\ UNCHANGED <<visited_nodes, entered, gerr, pruning, pstatus,
                           p2status>>
       ELSE /\ visited_nodes' = visited_nodes \cup {node_id}
            /\ entered' = [entered EXCEPT ![node_id] = @ + 1]
            /\ IF node_id \in DOMAIN Workflow
               THEN /\ stack' = Append(stk, [node |-> node_id, idx |-> 1])
                    /\ todo' = rest
                    /\ UNCHANGED <<gerr, pruning, pstatus, p2status>>
               ELSE PruneRaises("KeyError")

\* what a fresh run of prune starts from
PruneLocalsReset(outs) ==
    /\ todo' = outs
    /\ stack' = <<>>
    /\ visited_nodes' = {}
    /\ required_nodes' = {}
    /\ calls' = 0
    /\ entered' = ZeroCount
    /\ added' = ZeroCount
    /\ gerr' = "none"

\* G.prune(outs, no_cache) is called
PruneStart(outs) ==
    /\ pruning = "none"
    /\ pstatus = "none"
    /\ pruning' = "G"
    /\ output_nodes' = outs
    /\ PruneLocalsReset(outs)
    /\ UNCHANGED <<heap, G, P, P2, pstatus, p2status, shared, edits, ret, lastEdit>>
    /\ UNCHANGED apiVars

\* P.prune(outs, no_cache) is called with the output_nodes P was made with
RePruneStart ==
    /\ pruning = "none"
    /\ pstatus = "ok"
    /\ p2status = "none"
    /\ pruning' = "P"
    /\ PruneLocalsReset(output_nodes)
    /\ UNCHANGED <<heap, G, P, P2, pstatus, p2status, output_nodes, shared,
                   edits, ret, lastEdit>>
    /\ UNCHANGED apiVars

\* for output_node in output_nodes: dfs(output_node)
DfsNext ==
    /\ pruning # "none"
    /\ stack = <<>>
    /\ todo # <<>>
    /\ DfsCall(Head(todo), <<>>, Tail(todo))
    /\ UNCHANGED <<heap, G, P, P2, output_nodes, required_nodes, added,
                   shared, edits, ret, lastEdit>>
    /\ UNCHANGED apiVars

\* one iteration of `for input_value in node["inputs"].values()`: a list of
\* two elements is followed to str(input_value[0]), anything else is skipped
DfsInput ==
    /\ pruning # "none"
    /\ stack # <<>>
    /\ Top.idx <= Len(NodeAt(Top.node).order)
    /\ LET node == NodeAt(Top.node)
           input_value == node.inputs[node.order[Top.idx]]
           stk == [stack EXCEPT ![Len(stack)].idx = @ + 1]
       IN IF IsReference(input_value)
          THEN DfsCall(StrOf(input_value.items[1]), stk, todo)
          ELSE /\ stack' = stk
               /\ UNCHANGED <<todo, visited_nodes, calls, entered, gerr,
                              pruning, pstatus, p2status>>
    /\ UNCHANGED <<heap, G, P, P2, output_nodes, required_nodes, added,
                   shared, edits, ret, lastEdit>>
    /\ UNCHANGED apiVars

\* DfsReturn that records a node only when it was reached through a
\* reference, never the output node the traversal started from
DfsReturnSkipsOutputs ==
    /\ pruning # "none"
    /\ stack # <<>>
    /\ Top.idx > Len(NodeAt(Top.node).order)
    /\ IF Len(stack) > 1
       THEN /\ required_nodes' = required_nodes \cup {Top.node}
            /\ added' = [added EXCEPT ![Top.node] = @ + 1]
       ELSE UNCHANGED <<required_nodes, added>>
    /\ stack' = Pop(stack)
    /\ UNCHANGED <<heap, G, P, P2, pstatus, p2status, pruning, output_nodes,
                   todo, visited_nodes, calls, entered, shared, edits, ret,
                   gerr, lastEdit>>
    /\ UNCHANGED apiVars

\* the for loop of a dfs call is over: required_nodes.add(node_id), return
DfsReturn ==
    /\ pruning # "none"
    /\ stack # <<>>
    /\ Top.idx > Len(NodeAt(Top.node).order)
    /\ required_nodes' = required_nodes \cup {Top.node}
    /\ added' = [added EXCEPT ![Top.node] = @ + 1]
    /\ stack' = Pop(stack)
    /\ UNCHANGED <<heap, G, P, P2, pstatus, p2status, pruning, output_nodes,
                   todo, visited_nodes, calls, entered, shared, edits, ret,
                   gerr, lastEdit>>
    /\ UNCHANGED apiVars

\* PrunedWorkflow without the `if node_id in required_nodes` filter
PrunedWorkflowKeepAll(workflow, required) == workflow

\* {node_id: node for node_id, node in workflow.items() if node_id in
\* required_nodes}: the kept ids map to the very node objects of workflow
PrunedWorkflow(workflow, required) ==
    [id \in (DOMAIN workflow) \cap required |-> workflow[id]]

\* largest address in use
MaxAddr(hp) ==
    IF DOMAIN hp = {} THEN 0
    ELSE CHOOSE a \in DOMAIN hp : \A b \in DOMAIN hp : b <= a

\* PruneReturn that copies every kept node into a fresh object
PruneReturnDeepCopy ==
    /\ pruning # "none"
    /\ stack = <<>>
    /\ todo = <<>>
    /\ LET pruned == PrunedWorkflow(Workflow, required_nodes)
           base == MaxAddr(heap)
           copy == [id \in DOMAIN pruned |-> base + AddrOf(id)]
       IN /\ heap' = [a \in (DOMAIN heap) \cup {copy[id] : id \in DOMAIN pruned} |->
                        IF a \in DOMAIN heap THEN heap[a]
                        ELSE heap[pruned[IdSeq[a - base]]]]
          /\ IF pruning = "G"
             THEN /\ P' = copy
                  /\ pstatus' = "ok"
                  /\ shared' = DOMAIN pruned
                  /\ UNCHANGED <<P2, p2status>>
             ELSE /\ P2' = copy
                  /\ p2status' = "ok"
                  /\ UNCHANGED <<P, pstatus, shared>>
    /\ pruning' = "none"
    /\ UNCHANGED <<G, output_nodes, todo, stack, visited_nodes,
                   required_nodes, calls, entered, added, edits, ret, gerr,
                   lastEdit>>
    /\ UNCHANGED apiVars

\* return ComfyWorkflowWrapper(pruned_workflow)
PruneReturn ==
    /\ pruning # "none"
    /\ stack = <<>>
    /\ todo = <<>>
    /\ LET pruned == PrunedWorkflow(Workflow, required_nodes) IN
         IF pruning = "G"
         THEN /\ P' = pruned
              /\ pstatus' = "ok"
              /\ shared' = DOMAIN pruned
              /\ UNCHANGED <<P2, p2status>>
         ELSE /\ P2' = pruned
              /\ p2status' = "ok"
              /\ UNCHANGED <<P, pstatus, shared>>
    /\ pruning' = "none"
    /\ UNCHANGED <<heap, G, output_nodes, todo, stack, visited_nodes,
                   required_nodes, calls, entered, added, edits, ret, gerr, lastEdit>>
    /\ UNCHANGED apiVars

\* ------------------------------------------------ documents to prune
Lit == Num("7")
StrRef(id) == Ref(Scalar("str", id))
IntRef(id) == Ref(Scalar("num", id))
Triple == List(<<Scalar("str", "1"), Scalar("num", "0"), Scalar("num", "0")>>)

RefOrLit == {Lit} \cup {StrRef(id) : id \in AllIds}

AB(title, a, b) == Node(title, <<"a", "b">>, [a |-> a, b |-> b])

\* the definitions node id may have in a document
PruneNodeDefs(id) ==
    IF id = "1"
    THEN {AB("A", a, b) : a \in RefOrLit, b \in {Lit, StrRef("3")}}
    ELSE IF id = "2"
    THEN {AB("A", a, Lit) : a \in RefOrLit \cup {IntRef("3")}}
    ELSE {AB("B", a, Lit) : a \in RefOrLit \cup {Triple}}

PruneDocs ==
    UNION {{doc \in [S -> UNION {PruneNodeDefs(id) : id \in S}] :
               \A id \in S : doc[id] \in PruneNodeDefs(id)} : S \in SUBSET Ids}

InitPrune ==
    /\ ApiInit
    /\ \E doc \in PruneDocs : GraphLoaded(doc)

NextPrune ==
    \/ \E outs \in OutputLists : PruneStart(outs)
    \/ RePruneStart
    \/ DfsNext
    \/ DfsInput
    \/ DfsReturn
    \/ PruneReturn

SpecPrune == InitPrune /\ [][NextPrune]_vars

\* ============================== set_node_param, get_node_param, dict
\* ---------------------------------------------------------------- bounds
\* Number of successful mutating calls (set_node_param, w[id] = node,
\* del w[id]) made on the wrappers.
MaxEdits == 1

\* the wrapper named w: "G", or "P" once prune returned it
Wrap(w) == IF w = "P" THEN P ELSE G
Loaded(w) == w = "G" \/ (w = "P" /\ pstatus = "ok")

pruneVars == <<P2, pstatus, p2status, pruning, output_nodes, todo, stack,
               visited_nodes, required_nodes, calls, entered, added>>

\* json.loads(text) for the texts the model passes
JsonParses(t) == t \in {"20", "[\"2\", 0]"}
JsonLoads(t) == IF t = "20" THEN Num("20") ELSE StrRef("2")

\* what set_node_param stores for value when the input held orig:
\* ok = FALSE when json.loads raises (err names the exception)
Stored(orig, value) ==
    IF orig.k \in {"num", "bool"}
    THEN [ok |-> TRUE, val |-> value, err |-> "none"]
    ELSE IF orig.k = "list"
    THEN IF value.k # "str"
         THEN [ok |-> FALSE, val |-> orig, err |-> "TypeError"]
         ELSE IF JsonParses(value.v)
         THEN [ok |-> TRUE, val |-> JsonLoads(value.v), err |-> "none"]
         ELSE [ok |-> FALSE, val |-> orig, err |-> "JSONDecodeError"]
    ELSE [ok |-> TRUE, val |-> value, err |-> "none"]

\* a wrapper call that raises e and changes nothing
EditRaises(e) ==
    /\ gerr' = e
    /\ ret' = NoValue
    /\ UNCHANGED <<heap, G, P, shared, edits>>

\* set_node_param that writes the parameter of every node of the wrapper
\* that has the title of node id (and has the parameter)
SetNodeParamByTitle(w, id, param, value) ==
    /\ pruning = "none"
    /\ Loaded(w)
    /\ edits < MaxEdits
    /\ lastEdit' = w \o ".set_node_param"
    /\ LET sid == StrOf(id) IN
         IF sid \notin DOMAIN Wrap(w) THEN EditRaises("ValueError")
         ELSE LET node == heap[Wrap(w)[sid]] IN
           IF param \notin DOMAIN node.inputs THEN EditRaises("KeyError")
           ELSE LET st == Stored(node.inputs[param], value)
                    same == {Wrap(w)[x] : x \in {y \in DOMAIN Wrap(w) :
                                /\ heap[Wrap(w)[y]].title = node.title
                                /\ param \in DOMAIN heap[Wrap(w)[y]].inputs}}
                IN
             IF ~st.ok THEN EditRaises(st.err)
             ELSE /\ heap' = [a \in DOMAIN heap |->
                                IF a \in same
                                THEN [heap[a] EXCEPT !.inputs[param] = st.val]
                                ELSE heap[a]]
                  /\ edits' = edits + 1
                  /\ gerr' = "none"
                  /\ ret' = NoValue
                  /\ UNCHANGED <<G, P, shared>>
    /\ UNCHANGED pruneVars
    /\ UNCHANGED apiVars

\* w.set_node_param(id, param, value)
SetNodeParam(w, id, param, value) ==
    /\ pruning = "none"
    /\ Loaded(w)
    /\ edits < MaxEdits
    /\ lastEdit' = w \o ".set_node_param"
    /\ LET sid == StrOf(id) IN
         IF sid \notin DOMAIN Wrap(w) THEN EditRaises("ValueError")
         ELSE LET addr == Wrap(w)[sid]
                  node == heap[addr]
              IN
           IF param \notin DOMAIN node.inputs THEN EditRaises("KeyError")
           ELSE LET st == Stored(node.inputs[param], value) IN
             IF ~st.ok THEN EditRaises(st.err)
             ELSE /\ heap' = [heap EXCEPT ![addr].inputs[param] = st.val]
                  /\ edits' = edits + 1
                  /\ gerr' = "none"
                  /\ ret' = NoValue
                  /\ UNCHANGED <<G, P, shared>>
    /\ UNCHANGED pruneVars
    /\ UNCHANGED apiVars

\* self[id]["inputs"][param] on wrapper wr over the node objects hp
GetValue(hp, wr, sid, param) == hp[wr[sid]].inputs[param]

\* w.get_node_param(id, param)
GetNodeParam(w, id, param) ==
    /\ pruning = "none"
    /\ Loaded(w)
    /\ lastEdit' = w \o ".get_node_param"
    /\ LET sid == StrOf(id) IN
         IF sid \notin DOMAIN Wrap(w)
         THEN gerr' = "AssertionError" /\ ret' = NoValue
         ELSE IF param \notin DOMAIN heap[Wrap(w)[sid]].inputs
         THEN gerr' = "KeyError" /\ ret' = NoValue
         ELSE gerr' = "none" /\ ret' = GetValue(heap, Wrap(w), sid, param)
    /\ UNCHANGED <<heap, G, P, shared, edits>>
    /\ UNCHANGED pruneVars
    /\ UNCHANGED apiVars

\* the node a caller adds
NewNode == Node("N", <<"steps">>, [steps |-> Num("1")])

\* w[id] = <a new node dict>  (dict.__setitem__)
AddNode(w, id) ==
    /\ pruning = "none"
    /\ Loaded(w)
    /\ edits < MaxEdits
    /\ lastEdit' = w \o ".__setitem__"
    /\ LET addr == MaxAddr(heap) + 1 IN
         /\ heap' = [a \in (DOMAIN heap) \cup {addr} |->
                        IF a = addr THEN NewNode ELSE heap[a]]
         /\ IF w = "G"
            THEN /\ G' = [x \in (DOMAIN G) \cup {id} |->
                             IF x = id THEN addr ELSE G[x]]
                 /\ UNCHANGED P
            ELSE /\ P' = [x \in (DOMAIN P) \cup {id} |->
                             IF x = id THEN addr ELSE P[x]]
                 /\ UNCHANGED G
    /\ shared' = shared \ {id}
    /\ edits' = edits + 1
    /\ gerr' = "none"
    /\ ret' = NoValue
    /\ UNCHANGED pruneVars
    /\ UNCHANGED apiVars

\* del w[id]  (dict.__delitem__)
DelNode(w, id) ==
    /\ pruning = "none"
    /\ Loaded(w)
    /\ edits < MaxEdits
    /\ lastEdit' = w \o ".__delitem__"
    /\ IF id \notin DOMAIN Wrap(w) THEN EditRaises("KeyError")
       ELSE /\ IF w = "G"
               THEN /\ G' = [x \in (DOMAIN G) \ {id} |-> G[x]]
                    /\ UNCHANGED P
               ELSE /\ P' = [x \in (DOMAIN P) \ {id} |-> P[x]]
                    /\ UNCHANGED G
            /\ shared' = shared \ {id}
            /\ edits' = edits + 1
            /\ gerr' = "none"
            /\ ret' = NoValue
            /\ UNCHANGED heap
    /\ UNCHANGED pruneVars
    /\ UNCHANGED apiVars

\* ------------------------------------------------- documents to edit
\* nodes "1" and "2" share a title
ParamNodeDef(id) ==
    IF id = "1"
    THEN Node("A", <<"steps", "flag", "text">>,
              [steps |-> Num("10"), flag |-> Bool("True"), text |-> Str("cat")])
    ELSE IF id = "2"
    THEN Node("A", <<"steps", "src">>,
              [steps |-> Num("10"), src |-> StrRef("1")])
    ELSE Node("B", <<"src">>, [src |-> StrRef("2")])

ParamDocs == {[id \in S |-> ParamNodeDef(id)] : S \in {Ids, {"1", "2"}}}

Wrappers == {"G", "P"}
IdArgs == {Scalar("num", "1"), Scalar("str", "2"), Scalar("str", MissingId)}
Params == {"steps", "flag", "text", "src"}
ParamValues == {Str("20"), Str("[\"2\", 0]"), Str("oops")}

InitParam ==
    /\ ApiInit
    /\ \E doc \in ParamDocs : GraphLoaded(doc)

NextParam ==
    \/ \E outs \in {o \in OutputLists : Len(o) <= 1} : PruneStart(outs)
    \/ DfsNext
    \/ DfsInput
    \/ DfsReturn
    \/ PruneReturn
    \/ \E w \in Wrappers, id \in IdArgs, param \in Params, value \in ParamValues :
          SetNodeParam(w, id, param, value)
    \/ \E w \in Wrappers, id \in IdArgs, param \in Params :
          GetNodeParam(w, id, param)
    \/ \E w \in Wrappers, id \in {"1", MissingId} : AddNode(w, id)
    \/ \E w \in Wrappers, id \in AllIds : DelNode(w, id)

SpecParam == InitParam /\ [][NextParam]_vars

\* ====================================================== claims C1 .. C10
AwaitedId == EnginePromptId(1)

\* frames after which the spec lets the wait end as Completed
IsCompletion(m) ==
    \/ m = Status(0)
    \/ m = Executing(None, AwaitedId)
    \/ m = Executed(None, AwaitedId)

\* ---------------------------------------------------------------- C1
\* C1: once an execution_error frame naming the awaited prompt id (with
\* node id, node type, exception type and message) has been received, the
\* listener is in the terminal Failed state, whatever arrives afterwards.
C1_ExecutionErrorFails ==
    (errorLogged \/ last = ExecutionError(AwaitedId, TRUE))
        => listener = "Failed"

\* ---------------------------------------------------------------- C2
\* C2: a received status frame with queue_remaining = 0 completes the
\* wait; a monitor frame, a status frame with a non-zero queue, and an
\* executing or executed frame naming a node never do; and on the frames
\* <<Monitor, Status{2}, Executing{"5"}, Executed{"5"}, Status{0}>> the wait
\* is Completed exactly after the fifth frame.
IsProgressFrame(m) ==
    \/ m = Monitor
    \/ m.type = "status" /\ m.qr > 0
    \/ m.type \in {"executing", "executed"} /\ m.node \in NodeIds

C2_CompletesOnFirstStatusZero ==
    /\ [][\A m \in Messages : Recv(m) =>
            /\ (m = Status(0) => listener' = "Completed")
            /\ (IsProgressFrame(m) => listener' = "Streaming")]_vars
    /\ [](scen \in 1 .. (Len(Scenario) - 1) => listener # "Completed")
    /\ [](scen = Len(Scenario) => listener = "Completed")

C2_Witness ==
    /\ scen = Len(Scenario)
    /\ last = Status(0)
    /\ listener = "Completed"

\* ---------------------------------------------------------------- C3
\* C3: an executing or executed frame with node = none completes the wait
\* if and only if it carries a prompt_id equal to the awaited one; with the
\* field absent or naming another job the listener stays Streaming on the
\* open connection.
C3_NodeNoneCompletesIffPromptMatches ==
    [][\A m \in Messages :
          (Recv(m) /\ m.type \in {"executing", "executed"} /\ m.data
                   /\ m.node = None)
          => IF m.pid = AwaitedId
             THEN listener' = "Completed" /\ returned' = AwaitedId
             ELSE listener' = "Streaming" /\ connOpen' /\ pc' = "waiting"]_vars

C3_Witness ==
    /\ last = Executed(None, AwaitedId)
    /\ listener = "Completed"
    /\ returned = AwaitedId

\* ---------------------------------------------------------------- C4
\* C4: a drop while Streaming with budget left closes the connection and
\* starts the backoff; the backoff ends after retry_delay seconds with one
\* retry consumed and a new connection attempt for the same prompt; and a
\* completion frame received on any connection ends the wait as Completed
\* with the prompt id that was submitted.
C4_DropThenReconnectCompletes ==
    /\ [][(ConnectionDrop /\ max_retries > 0) =>
            /\ listener' = "Backoff"
            /\ ~connOpen'
            /\ pc' = "waiting"]_vars
    /\ [][(listener = "Backoff" /\ listener' \notin {"Backoff", "Cancelled"}) =>
            /\ listener' = "Connecting"
            /\ max_retries' = max_retries - 1
            /\ slept' = slept + RetryDelay
            /\ prompt_id' = prompt_id
            /\ ws_url' = ws_url]_vars
    /\ [][\A m \in Messages : (Recv(m) /\ IsCompletion(m)) =>
            /\ listener' = "Completed"
            /\ returned' = AwaitedId]_vars

C4_Witness ==
    /\ listener = "Completed"
    /\ returned = AwaitedId
    /\ failures = 1
    /\ connects = 2
    /\ max_retries = MaxRetries - 1
    /\ slept = RetryDelay

\* ---------------------------------------------------------------- C5
\* C5: a wait never sees more than MaxRetries + 1 failures nor makes more
\* than MaxRetries + 1 connection attempts, and once the failures exceed
\* MaxRetries the wait has ended as Failed with the exception raised to the
\* caller and no connection open.
C5_RetryBounded ==
    /\ failures <= MaxRetries + 1
    /\ connects <= MaxRetries + 1
    /\ failures > MaxRetries =>
          /\ listener = "Failed"
          /\ pc = "done"
          /\ outcome = "raised"
          /\ ~connOpen

C5_Witness ==
    /\ failures = MaxRetries + 1
    /\ connects = MaxRetries + 1
    /\ listener = "Failed"
    /\ outcome = "raised"

\* ---------------------------------------------------------------- C6
\* C6: one call posts the prompt exactly once, however often the listener
\* reconnects, and every connection attempt is addressed to the client id
\* of that submission and awaits the prompt id the submission produced.
C6_SingleSubmission ==
    /\ submissions <= 1
    /\ listener # "NotStarted" =>
          /\ submissions = 1
          /\ prompt_id = AwaitedId
          /\ ws_url = client_id
          /\ connClients \subseteq {client_id}

C6_Witness ==
    /\ connects >= 3
    /\ failures >= 2
    /\ submissions = 1
    /\ connClients = {client_id}
    /\ prompt_id = AwaitedId

\* ---------------------------------------------------------------- C7
\* C7: when the submission response holds no prompt_id, the call ends with
\* a SubmissionRejected error raised to the caller, after one submission
\* and without the listener ever starting.
C7_SubmissionRejected ==
    response = "no_prompt_id" =>
        /\ pc = "done"
        /\ outcome = "raised"
        /\ error = "SubmissionRejected"
        /\ submissions = 1
        /\ listener = "NotStarted"
        /\ connects = 0

\* ---------------------------------------------------------------- C8
\* C8: cancelling the wait while it connects, awaits a frame or sleeps in
\* the backoff ends it as Cancelled, consumes no retry, counts as no
\* failure, is followed by no connection attempt and leaves no connection
\* open.
C8_CancelIsDistinct ==
    /\ [][Cancel =>
            /\ listener' = "Cancelled"
            /\ outcome' = "cancelled"
            /\ pc' = "done"
            /\ ~connOpen'
            /\ max_retries' = max_retries
            /\ failures' = failures
            /\ connects' = connects]_vars
    /\ [][listener = "Cancelled" =>
            /\ listener' = "Cancelled"
            /\ connects' = connects
            /\ ~connOpen']_vars

C8_Witness ==
    /\ listener = "Cancelled"
    /\ outcome = "cancelled"
    /\ connects >= 1
    /\ last # NoMessage
    /\ ~connOpen

\* ---------------------------------------------------------------- C9
\* C9: queue_and_wait_images looks the history up only after the listener
\* reached Completed, and at most once; when the submission or the listener
\* failed, the failure reaches the caller with no history lookup and no
\* outputs.
C9_HistoryOnlyAfterCompleted ==
    /\ historyCalls > 0 =>
          /\ listener = "Completed"
          /\ entry = "queue_and_wait_images"
          /\ historyCalls = 1
    /\ (pc = "done" /\ listener # "Completed") =>
          /\ outcome \in {"raised", "exit", "cancelled"}
          /\ historyCalls = 0
          /\ outputs = EmptyOutputs

C9_Witness ==
    /\ entry = "queue_and_wait_images"
    /\ historyCalls = 1
    /\ outcome = "returned"
    /\ listener = "Completed"

\* --------------------------------------------------------------- C10
\* C10 (as claimed): with output_node_ids supplied, the returned outputs
\* hold no entry outside output_node_ids and an entry for every requested
\* id, empty when that id produced no output.
C10_EntryForEveryRequestedId ==
    (pc = "done" /\ outcome = "returned" /\ entry = "queue_and_wait_images"
        /\ output_node_ids # {})
    => /\ DOMAIN outputs = output_node_ids
       /\ \A n \in output_node_ids :
             outputs[n] = IF n \in DOMAIN history THEN history[n] ELSE {}

\* C10 (amended): with output_node_ids supplied, the returned outputs hold
\* no entry outside output_node_ids, and for a requested id they hold the
\* history's entry when that id produced output and no entry otherwise.
C10_FilteredToRequestedIds ==
    (pc = "done" /\ outcome = "returned" /\ entry = "queue_and_wait_images"
        /\ output_node_ids # {})
    => /\ DOMAIN outputs = output_node_ids \cap DOMAIN history
       /\ \A n \in DOMAIN outputs : outputs[n] = history[n]

C10_Witness ==
    /\ pc = "done"
    /\ outcome = "returned"
    /\ entry = "queue_and_wait_images"
    /\ output_node_ids = {"5"}
    /\ DOMAIN history = {"9"}
    /\ DOMAIN outputs = {}

\* ===================================================== claims C11 .. C20
\* ids named by the output_nodes of the last prune(G, ...)
OutputSet == {output_nodes[i] : i \in DOMAIN output_nodes}

\* producer ids of the reference pairs among the inputs of node id of w
Producers(w, id) ==
    IF id \in DOMAIN w
    THEN LET inputs == heap[w[id]].inputs IN
           {StrOf(inputs[nm].items[1]) :
               nm \in {x \in DOMAIN inputs :
                          inputs[x].k = "list" /\ Len(inputs[x].items) = 2}}
    ELSE {}

\* ids reachable from S in w by following reference pairs to their producers
RECURSIVE ReachFrom(_, _)
ReachFrom(w, S) ==
    LET next == S \cup UNION {Producers(w, id) : id \in S} IN
      IF next = S THEN S ELSE ReachFrom(w, next)

\* node id lies on a dependency cycle of w
OnCycle(w, id) == id \in ReachFrom(w, Producers(w, id))

\* number of reference pairs among the inputs of all nodes of w
RECURSIVE RefCount(_, _)
RefCount(w, S) ==
    IF S = {} THEN 0
    ELSE LET id == CHOOSE x \in S : TRUE
             inputs == heap[w[id]].inputs
         IN Cardinality({nm \in DOMAIN inputs : IsReference(inputs[nm])})
              + RefCount(w, S \ {id})

\* --------------------------------------------------------------- C11
\* C11: when the outputs and everything they reach exist in G, prune(G, O)
\* returns a graph, and the graph prune returns holds exactly the ids
\* reachable from O through reference pairs, each mapped to the node it has
\* in G.
C11_PruneKeepsExactlyReachable ==
    /\ pstatus = "ok" =>
          /\ DOMAIN P = ReachFrom(G, OutputSet)
          /\ \A id \in DOMAIN P : P[id] = G[id] /\ heap[P[id]] = heap[G[id]]
    /\ (pstatus # "none" /\ ReachFrom(G, OutputSet) \subseteq DOMAIN G)
          => pstatus = "ok"

C11_Witness ==
    /\ pstatus = "ok"
    /\ DOMAIN G = Ids
    /\ OutputSet = {"2"}
    /\ DOMAIN P = {"2", "3"}

\* --------------------------------------------------------------- C12
\* C12: pruning the graph prune(G, O) returned with the same O succeeds and
\* returns an equal graph.
C12_PruneIdempotent ==
    p2status # "none" => (p2status = "ok" /\ P2 = P)

C12_Witness ==
    /\ p2status = "ok"
    /\ P2 = P
    /\ Cardinality(DOMAIN P) >= 2
    /\ DOMAIN P # DOMAIN G

\* --------------------------------------------------------------- C13
\* C13: a prune enters every node at most once and records it as required
\* at most once, makes no more dfs calls than there are output nodes and
\* reference pairs, never nests deeper than the graph has nodes, and when it
\* returns a graph every reachable node, those on cycles included, was
\* entered and recorded exactly once.
C13_PruneTerminatesOnCycles ==
    /\ \A id \in AllIds : entered[id] <= 1 /\ added[id] <= 1
    /\ calls <= Len(output_nodes) + RefCount(Workflow, DOMAIN Workflow)
    /\ Len(stack) <= Cardinality(DOMAIN Workflow)
    /\ (pstatus = "ok" /\ p2status = "none" /\ pruning = "none") =>
          \A id \in ReachFrom(G, OutputSet) :
              id \in DOMAIN P /\ entered[id] = 1 /\ added[id] = 1

C13_Witness ==
    /\ pstatus = "ok"
    /\ p2status = "none"
    /\ pruning = "none"
    /\ OutputSet = {"3"}
    /\ DOMAIN P = Ids
    /\ \A id \in Ids : OnCycle(G, id)
    /\ added = [id \in AllIds |-> IF id \in Ids THEN 1 ELSE 0]

\* --------------------------------------------------------------- C14
\* C14: prune(G, O) ends with a KeyError and without a graph exactly when an
\* id of O, or a producer id reachable from O, is missing from G; a graph it
\* returns has no reference to a node it does not hold.
C14_PruneFailsOnMissingId ==
    /\ pstatus # "none" =>
          (pstatus = "KeyError" <=> ~(ReachFrom(G, OutputSet) \subseteq DOMAIN G))
    /\ pstatus = "KeyError" => (P = EmptyGraph /\ gerr = "KeyError")
    /\ pstatus = "ok" => \A id \in DOMAIN P : Producers(P, id) \subseteq DOMAIN P

C14_Witness ==
    /\ pstatus = "KeyError"
    /\ P = EmptyGraph
    /\ OutputSet = {"1"}
    /\ "1" \in DOMAIN G
    /\ Cardinality(visited_nodes) >= 3

\* --------------------------------------------------------------- C15
\* C15: after a set_node_param that succeeds on an input whose value was
\* numeric or boolean, get_node_param returns a value of that same kind
\* (the passed value coerced), not the literal that was passed.
C15_SetThenGetCoerced ==
    [][\A w \in Wrappers :
        (pruning = "none" /\ lastEdit' = w \o ".set_node_param") =>
        \A id \in IdArgs, param \in Params, value \in ParamValues :
          (/\ Loaded(w)
           /\ StrOf(id) \in DOMAIN Wrap(w)
           /\ param \in DOMAIN heap[Wrap(w)[StrOf(id)]].inputs
           /\ GetValue(heap, Wrap(w), StrOf(id), param).k \in {"num", "bool"}
           /\ SetNodeParam(w, id, param, value)
           /\ gerr' = "none")
          => GetValue(heap', Wrap(w), StrOf(id), param).k
                = GetValue(heap, Wrap(w), StrOf(id), param).k]_vars

IsNonTerminal(m) ==
    /\ m.kind = "json"
    /\ m.type # Absent
    /\ \/ m.type = "crystools.monitor"
       \/ m.type = "execution_cached" /\ m.data
       \/ m.type \notin {"crystools.monitor", "execution_cached",
                         "execution_error", "status", "executing", "executed"}
       \/ m.type \in {"executing", "executed"} /\ m.data
             /\ m.node \notin {Absent, None}
       \/ m.type = "status" /\ m.data /\ m.qr > 0
       \/ m.type = "execution_error" /\ m.data
             /\ m.pid \notin {Absent, prompt_id}

\* C17: receiving a non-terminal event leaves the listener Streaming on the
\* open connection, with the retry counter, the connection and failure
\* counts, client id, prompt id and the outcome of the call unchanged; the
\* event is consumed in arrival order (the scenario position follows it).
C17_NonTerminalKeepsStreaming ==
    [][\A m \in Messages :
          (IsNonTerminal(m) /\ Recv(m)) =>
             /\ listener' = "Streaming"
             /\ connOpen /\ connOpen'
             /\ max_retries' = max_retries
             /\ connects' = connects
             /\ failures' = failures
             /\ slept' = slept
             /\ client_id' = client_id
             /\ prompt_id' = prompt_id
             /\ ws_url' = ws_url
             /\ submissions' = submissions
             /\ pc' = "waiting"
             /\ outcome' = "none"
             /\ returned' = returned
             /\ last' = m
             /\ scen' = ScenarioStep(scen, m)]_vars

C17_Witness ==
    /\ last = Executed("5", Absent)
    /\ scen = 4
    /\ listener = "Streaming"
    /\ connOpen
    /\ failures = 0
    /\ max_retries = MaxRetries

\* --------------------------------------------------------------- C18
\* C18: the retry counter never increases, a connection attempt and a
\* received frame leave it as it is, and the connections one wait has opened
\* never exceed one more than the retries it has consumed - so at most
\* MaxRetries + 1 = 31 in all.
C18_BudgetPerWait ==
    /\ [][/\ max_retries' <= max_retries
          /\ (connects' # connects \/ last' # last) => max_retries' = max_retries
         ]_vars
    /\ [](/\ max_retries \in 0 .. MaxRetries
          /\ connects <= (MaxRetries - max_retries) + 1
          /\ MaxRetries + 1 = 31)

C18_Witness ==
    /\ connects = MaxRetries + 1
    /\ max_retries = 0
    /\ listener = "Streaming"
    /\ scen = 2
    /\ slept = MaxRetries * RetryDelay

\* --------------------------------------------------------------- C19
\* frames whose handling raises: text that is no JSON, a message without
\* "type", a message of a type the loop reads "data" from that lacks the
\* data or the field read from it
IsMalformed(m) ==
    \/ m.kind = "garbage"
    \/ /\ m.kind = "json"
       /\ \/ m.type = Absent
          \/ m.type \in {"execution_cached", "execution_error", "status",
                         "executing", "executed"} /\ ~m.data
          \/ m.type = "status" /\ m.data /\ m.qr < 0
          \/ m.type \in {"executing", "executed"} /\ m.data /\ m.node = Absent
          \/ m.type = "execution_error" /\ m.data /\ m.pid = Absent
          \/ m.type = "execution_error" /\ m.data /\ m.pid = prompt_id
                /\ ~m.detail

\* C19: receiving a frame whose handling raises closes the connection and
\* counts one failure exactly as a transport drop does: while retries are
\* left the listener goes to Backoff, from where the sleep consumes one
\* retry and leads to a new connection attempt; with none left the wait
\* ends Failed and the call raises.  The connection is never kept.
C19_HandlerExceptionIsDrop ==
    /\ [][\A m \in Messages :
            (IsMalformed(m) /\ Recv(m)) =>
               /\ ~connOpen'
               /\ failures' = failures + 1
               /\ max_retries' = max_retries
               /\ connects' = connects
               /\ returned' = returned
               /\ IF max_retries > 0
                  THEN /\ listener' = "Backoff"
                       /\ pc' = "waiting"
                       /\ outcome' = "none"
                  ELSE /\ listener' = "Failed"
                       /\ pc' = "done"
                       /\ outcome' = "raised"
                       /\ error' \in {"JSONDecodeError", "KeyError"}]_vars
    /\ [][(listener = "Backoff" /\ listener' \notin {"Backoff", "Cancelled"}) =>
            /\ listener' = "Connecting"
            /\ max_retries' = max_retries - 1
            /\ slept' = slept + RetryDelay]_vars

C19_Witness ==
    /\ last = Garbage
    /\ listener = "Failed"
    /\ outcome = "raised"
    /\ error = "JSONDecodeError"
    /\ failures = MaxRetries + 1
    /\ ~connOpen

\* --------------------------------------------------------------- C20
\* C20: a running prune changes neither the ids of G nor any node of G;
\* after P = prune(G, O), a set_node_param on one of the two wrappers for an
\* id both still hold from the prune changes the value get_node_param
\* returns on the other in the same way; and adding or deleting a node in
\* one wrapper changes neither the ids nor the nodes of the other.
Other(w) == IF w = "G" THEN "P" ELSE "G"

C20_PruneSharesNodes ==
    /\ [][(pruning # "none" \/ pruning' # "none") =>
            /\ G' = G
            /\ \A id \in DOMAIN G : heap'[G[id]] = heap[G[id]]]_vars
    /\ [][\A w \in Wrappers :
          (pruning = "none" /\ lastEdit' = w \o ".set_node_param") =>
          \A id \in IdArgs, param \in Params, value \in ParamValues :
            (/\ pstatus = "ok"
             /\ StrOf(id) \in shared
             /\ SetNodeParam(w, id, param, value)
             /\ gerr' = "none")
            => /\ StrOf(id) \in DOMAIN Wrap(Other(w))
               /\ GetValue(heap', Wrap(Other(w)), StrOf(id), param)
                     = GetValue(heap', Wrap(w), StrOf(id), param)
               /\ GetValue(heap, Wrap(Other(w)), StrOf(id), param)
                     = GetValue(heap, Wrap(w), StrOf(id), param)]_vars
    /\ [][\A w \in Wrappers, id \in AllIds :
            (pstatus = "ok" /\ (AddNode(w, id) \/ DelNode(w, id)))
            => LET o == Wrap(Other(w)) IN
                 /\ (IF w = "G" THEN P' ELSE G') = o
                 /\ \A x \in DOMAIN o : heap'[o[x]] = heap[o[x]]]_vars

C20_Witness ==
    /\ pstatus = "ok"
    /\ lastEdit = "P.set_node_param"
    /\ gerr = "none"
    /\ edits = 1
    /\ "1" \in shared
    /\ "1" \in DOMAIN G
    /\ P["1"] = G["1"]
    /\ GetValue(heap, G, "1", "steps") = Str("20")

====
